---- MODULE Spec2Model ----
(***************************************************************************)
(* A model of the Civo identity provider of oauth2-proxy                   *)
(* (providers/civo.go): construction of the provider, the permission       *)
(* check, the permissions request URL, and the session operations          *)
(* GetEmailAddress, ValidateSession and EnrichSession.                     *)
(*                                                                         *)
(* Strings the code only compares or stores are TLA+ strings.  Strings the *)
(* code builds or parses (URLs, the account that is formatted into a URL)  *)
(* are sequences of atoms: every separator character (":", "/", "?", "&",  *)
(* "=", "#", "+") is an atom of its own and a run of other characters is   *)
(* one atom, so that concatenation is \o and equality of strings is        *)
(* equality of sequences.                                                  *)
(***************************************************************************)
EXTENDS Integers, Sequences, FiniteSets, TLC

VARIABLES
    constructed,  \* whether NewCivoProvider has returned
    pdata,        \* the embedded *ProviderData
    args,         \* what NewCivoProvider was called with: p (*ProviderData) and opts
    provider,     \* the CivoProvider's own fields
    obs,          \* the last call of a pure method that was observed, and its result
    sess,         \* session id -> sessions.SessionState
    pc,           \* session id -> where the operation running on that session stands
    inv,          \* session id -> the locals of that operation
    ret,          \* session id -> what the last finished operation returned
    hist          \* session id -> bookkeeping of the calls made on that session

vars == <<constructed, pdata, args, provider, obs, sess, pc, inv, ret, hist>>

(***************************************************************************)
(* Bounds                                                                  *)
(***************************************************************************)
\* longest list of required permissions handed to the constructor
MaxRequired == 2
\* longest list of permissions the permissions endpoint returns
MaxPerms == 2
\* longest permissions URL, in atoms
MaxLen == 3
\* longest account, in atoms
MaxAccountLen == 2
\* operations started on one session
MaxCalls == 2

SeqsUpTo(S, n) == UNION {[1..k -> S] : k \in 0..n}

(***************************************************************************)
(* net/url: URL and its String method, restricted to the fields the        *)
(* provider sets (Scheme, Host, Path).  A nil *url.URL has Nil set.        *)
(***************************************************************************)
URL(scheme, host, path) == [Nil |-> FALSE, Scheme |-> scheme, Host |-> host, Path |-> path]

NilURL == [Nil |-> TRUE, Scheme |-> <<>>, Host |-> <<>>, Path |-> <<>>]

EmptyURL == URL(<<>>, <<>>, <<>>)

\* scheme ":" then "//" host when there is one, then the path, with a "/"
\* put in front of a path that does not start with one when there is a host
URLString(u) ==
    (IF u.Scheme # <<>> THEN u.Scheme \o <<":">> ELSE <<>>)
    \o (IF (u.Scheme # <<>> \/ u.Host # <<>>) /\ (u.Host # <<>> \/ u.Path # <<>>)
        THEN <<"/", "/">> ELSE <<>>)
    \o u.Host
    \o (IF u.Path # <<>> /\ u.Path[1] # "/" /\ u.Host # <<>> THEN <<"/">> ELSE <<>>)
    \o u.Path

(***************************************************************************)
(* The provider's constants                                                *)
(***************************************************************************)
CivoProviderName == "civo"

CivoDefaultScope == "read"

CivoDefaultLoginURL == URL(<<"https">>, <<"auth.civo.com">>, <<"v2", "/", "authorize">>)

CivoDefaultRedeemURL == URL(<<"https">>, <<"auth.civo.com">>, <<"v2", "/", "token">>)

CivoDefaultProfileURL == URL(<<"https">>, <<"auth.civo.com">>, <<"v2", "/", "userinfo">>)

(***************************************************************************)
(* ProviderData.setProviderDefaults: the name is set, and each URL and the *)
(* scope take the default only where nothing is configured.                *)
(***************************************************************************)
defaultURL(u, d) == IF ~u.Nil /\ URLString(u) # <<>> THEN u ELSE d

setProviderDefaults(p, defaults) ==
    [p EXCEPT !.ProviderName = defaults.name,
              !.LoginURL = defaultURL(p.LoginURL, defaults.loginURL),
              !.RedeemURL = defaultURL(p.RedeemURL, defaults.redeemURL),
              !.ProfileURL = defaultURL(p.ProfileURL, defaults.profileURL),
              !.ValidateURL = defaultURL(p.ValidateURL, defaults.validateURL),
              !.Scope = IF p.Scope = "" THEN defaults.scope ELSE p.Scope]

CivoDefaults ==
    [name |-> CivoProviderName,
     loginURL |-> CivoDefaultLoginURL,
     redeemURL |-> CivoDefaultRedeemURL,
     profileURL |-> CivoDefaultProfileURL,
     validateURL |-> CivoDefaultProfileURL,
     scope |-> CivoDefaultScope]

\* the loop of NewCivoProvider that turns opts.Permissions into the keys of a map
RECURSIVE requiredPermissionsMap(_, _, _)
requiredPermissionsMap(perms, i, m) ==
    IF i > Len(perms) THEN m
    ELSE requiredPermissionsMap(perms, i + 1, m \cup {perms[i]})

\* a constructor that writes the defaults over whatever is configured
NewCivoProviderDataOverwriting(p) ==
    [p EXCEPT !.ProviderName = CivoDefaults.name,
              !.LoginURL = CivoDefaults.loginURL,
              !.RedeemURL = CivoDefaults.redeemURL,
              !.ProfileURL = CivoDefaults.profileURL,
              !.ValidateURL = CivoDefaults.validateURL,
              !.Scope = CivoDefaults.scope]

\* what NewCivoProvider leaves in the ProviderData it was given
NewCivoProviderData(p) == setProviderDefaults(p, CivoDefaults)

\* the CivoProvider NewCivoProvider returns (beside the ProviderData it embeds)
NewCivoProviderFields(o) ==
    [Account |-> o.Account,
     PermissionsMap |-> requiredPermissionsMap(o.Permissions, 1, {}),
     PermissionsURL |-> o.PermissionsURL]

(***************************************************************************)
(* The permission check                                                    *)
(***************************************************************************)
Permission(code) == [Code |-> code, Name |-> "x", Description |-> "y"]

\* the loop of isUserAllowed, from the i-th permission on
RECURSIVE isUserAllowedFrom(_, _, _)
isUserAllowedFrom(p, userPermissions, i) ==
    IF i > Len(userPermissions) THEN FALSE
    ELSE IF userPermissions[i].Code \in p.PermissionsMap THEN TRUE
    ELSE isUserAllowedFrom(p, userPermissions, i + 1)

\* a check that wants every returned permission to be a required one
isUserAllowedAll(p, userPermissions) ==
    /\ userPermissions # <<>>
    /\ \A i \in 1..Len(userPermissions) : userPermissions[i].Code \in p.PermissionsMap

\* a check that takes an empty configuration for "no restriction"
isUserAllowedOpen(p, userPermissions) ==
    p.PermissionsMap = {} \/ isUserAllowedFrom(p, userPermissions, 1)

isUserAllowed(p, userPermissions) == isUserAllowedFrom(p, userPermissions, 1)

(***************************************************************************)
(* The permissions request URL                                             *)
(***************************************************************************)
\* whether the URL already has a "?" in it
hasQueryParams(url) == \E i \in 1..Len(url) : url[i] = "?"

\* the two separators the wrong way round
joinerCharSwapped(url) == IF hasQueryParams(url) THEN "?" ELSE "&"

joinerChar(url) == IF hasQueryParams(url) THEN "&" ELSE "?"

\* fmt.Sprintf("%s%saccount_id=%s", p.PermissionsURL, joinerChar(p.PermissionsURL), p.Account)
PermissionsEndpoint(p) ==
    p.PermissionsURL \o <<joinerChar(p.PermissionsURL)>> \o <<"account_id", "=">> \o p.Account

(***************************************************************************)
(* net/url: how the receiver of the request reads its query.  The fragment *)
(* starts at the first "#", the query at the first "?" before it; the      *)
(* query is cut at every "&", each non-empty piece at its first "=", and   *)
(* in keys and values a "+" stands for a space.                            *)
(***************************************************************************)
\* the index of the first atom c of s at or after i, Len(s) + 1 when there is none
RECURSIVE IndexFrom(_, _, _)
IndexFrom(s, c, i) ==
    IF i > Len(s) THEN Len(s) + 1
    ELSE IF s[i] = c THEN i
    ELSE IndexFrom(s, c, i + 1)

BeforeFragment(s) == SubSeq(s, 1, IndexFrom(s, "#", 1) - 1)

RawQuery(s) ==
    LET r == BeforeFragment(s)
    IN  SubSeq(r, IndexFrom(r, "?", 1) + 1, Len(r))

QueryUnescape(s) == [i \in 1..Len(s) |-> IF s[i] = "+" THEN " " ELSE s[i]]

\* one piece of the query as <<key, value>>
QueryPair(piece) ==
    LET e == IndexFrom(piece, "=", 1)
    IN  <<QueryUnescape(SubSeq(piece, 1, e - 1)),
          QueryUnescape(SubSeq(piece, e + 1, Len(piece)))>>

\* the <<key, value>> pairs of a query, in order
RECURSIVE ParseQuery(_)
ParseQuery(q) ==
    IF q = <<>> THEN <<>>
    ELSE LET a == IndexFrom(q, "&", 1)
             piece == SubSeq(q, 1, a - 1)
             rest == SubSeq(q, a + 1, Len(q))
         IN  (IF piece = <<>> THEN <<>> ELSE <<QueryPair(piece)>>) \o ParseQuery(rest)

\* the values the query of a URL gives for a key, in order
QueryValues(url, key) ==
    LET ps == ParseQuery(RawQuery(url))
    IN  SelectSeq(ps, LAMBDA kv : kv[1] = key)

(***************************************************************************)
(* Inputs                                                                  *)
(***************************************************************************)
Codes == {"compute.read", "billing.write"}

CustomLoginURL == URL(<<"https">>, <<"example.com">>, <<"/", "oauth", "/", "auth">>)

CustomRedeemURL == URL(<<"https">>, <<"example.com">>, <<"/", "oauth", "/", "token">>)

CustomProfileURL == URL(<<"https">>, <<"example.com">>, <<"/", "oauth", "/", "profile">>)

CustomValidateURL == URL(<<"https">>, <<"example.com">>, <<"/", "oauth", "/", "tokeninfo">>)

\* the ProviderData a caller may hand to NewCivoProvider
PDataInputs ==
    [ProviderName : {"", "other"},
     LoginURL : {NilURL, EmptyURL, CustomLoginURL},
     RedeemURL : {NilURL, EmptyURL, CustomRedeemURL},
     ProfileURL : {NilURL, EmptyURL, CustomProfileURL},
     ValidateURL : {NilURL, EmptyURL, CustomValidateURL},
     Scope : {"", "profile"}]

\* ProviderData{} as in TestNewCivoProvider
ZeroPData ==
    [ProviderName |-> "", LoginURL |-> NilURL, RedeemURL |-> NilURL,
     ProfileURL |-> NilURL, ValidateURL |-> NilURL, Scope |-> ""]

ZeroProvider == [Account |-> <<>>, PermissionsMap |-> {}, PermissionsURL |-> <<>>]

DefaultPermissionsURL == <<"https", ":", "/", "/", "api.civo.com", "/", "permissions">>

RequiredLists == SeqsUpTo(Codes, MaxRequired)

PermissionLists == SeqsUpTo({Permission(c) : c \in Codes}, MaxPerms)

URLAtoms == {"u", "?", "&", "#"}

AccountAtoms == {"a", "&", "#", "+"}

NoObs == [op |-> "none", perms |-> <<>>, allowed |-> FALSE, endpoint |-> <<>>]

(***************************************************************************)
(* Errors are strings of atoms too; NoError is Go's nil error.             *)
(***************************************************************************)
NoError == <<>>

\* errors.New("missing access token")
ErrMissingToken == <<"missing access token">>

\* what the requests package returns when the call or the decoding fails
ErrTransport == <<"transport error">>

ErrCancelled == <<"context canceled">>

ErrMalformed == <<"malformed response">>

FetchErrors == {ErrTransport, ErrCancelled, ErrMalformed}

\* simplejson's error when a value is not a string
ErrNotString == <<"type assertion to string failed">>

\* a denial that also lists the permissions the provider requires
ErrDeniedNamesRequired(user, account) ==
    <<"user ", user, " in account ">> \o account
        \o <<" has no sufficient permissions, required one of ">> \o args.opts.Permissions

\* fmt.Errorf("user %s in account %s has no sufficient permissions", user, p.Account)
ErrDenied(user, account) ==
    <<"user ", user, " in account ">> \o account \o <<" has no sufficient permissions">>

(***************************************************************************)
(* What the remote may answer                                              *)
(***************************************************************************)
Absent == [type |-> "absent", str |-> ""]

NotAString == [type |-> "number", str |-> ""]

Str(s) == [type |-> "string", str |-> s]

Users == {"u1", "u2"}

Emails == {"user@example.com"}

\* the profile endpoint: a failure, or a JSON object that may hold email and user_id
ProfileResponses ==
    [err : FetchErrors, json : {[email |-> Absent, user_id |-> Absent]}]
    \cup [err : {NoError},
          json : [email : {Absent, NotAString} \cup {Str(e) : e \in Emails},
                  user_id : {Absent, NotAString} \cup {Str(u) : u \in Users}]]

\* the permissions endpoint: a failure, or a JSON array of permissions
PermissionsResponses ==
    [err : FetchErrors, permissions : {<<>>}]
    \cup [err : {NoError}, permissions : PermissionLists]

\* json.GetPath(key).String()
JSONString(v) ==
    IF v.type = "string" THEN [val |-> v.str, err |-> NoError]
    ELSE [val |-> "", err |-> ErrNotString]

(***************************************************************************)
(* Sessions and the bookkeeping of the calls                               *)
(***************************************************************************)
Tokens == {"", "token"}

Accounts == {<<"acc1">>}

InitialGroups == {<<>>, << <<"team">> >>}

NoCalls == [profile |-> 0, permissions |-> 0, validate |-> 0]

NoProfile == [err |-> NoError, json |-> [email |-> Absent, user_id |-> Absent]]

\* the locals of an operation: the profile answer, user, the permissions and the
\* error of their fetch, the answer of the validate call, and the URL last asked
NoLocals ==
    [profile |-> NoProfile, user |-> "", permissions |-> <<>>, permissionsErr |-> NoError,
     answer |-> "none", url |-> <<>>]

NoReturn == [op |-> "none", at |-> "none", err |-> NoError, email |-> "", valid |-> FALSE]

\* the operation on s starts: its calls are counted from zero and groups is remembered
Started(s) ==
    [hist[s] EXCEPT !.started = @ + 1, !.calls = NoCalls, !.groups0 = sess[s].Groups]

\* the operation on s returns
Return(s, r) ==
    /\ ret' = [ret EXCEPT ![s] = r]
    /\ pc' = [pc EXCEPT ![s] = "idle"]

\* the operation on s sends a request to url and waits for the answer
Request(s, h, kind, url, at) ==
    /\ hist' = [hist EXCEPT ![s] = [h EXCEPT !.calls[kind] = @ + 1]]
    /\ inv' = [inv EXCEPT ![s] = [NoLocals EXCEPT !.url = url]]
    /\ pc' = [pc EXCEPT ![s] = at]

CanStart(s) ==
    /\ constructed
    /\ pc[s] = "idle"
    /\ hist[s].started < MaxCalls

(***************************************************************************)
(* GetEmailAddress                                                         *)
(***************************************************************************)
EmailReturn(at, email, err) ==
    [op |-> "GetEmailAddress", at |-> at, err |-> err, email |-> email, valid |-> FALSE]

\* a GetEmailAddress that does not look at the token
emailTokenMissingNever(s) == FALSE

emailTokenMissing(s) == sess[s].AccessToken = ""

GetEmailAddressStart(s) ==
    /\ CanStart(s)
    /\ IF emailTokenMissing(s)
       THEN /\ Return(s, EmailReturn("L96", "", ErrMissingToken))
            /\ hist' = [hist EXCEPT ![s] = Started(s)]
            /\ inv' = [inv EXCEPT ![s] = NoLocals]
       ELSE /\ Request(s, Started(s), "profile", URLString(pdata.ProfileURL), "email:profile")
            /\ UNCHANGED ret
    /\ UNCHANGED <<constructed, pdata, args, provider, obs, sess>>

\* a GetEmailAddress that returns what it has of the email and drops the error
emailOfProfileLenient(resp) ==
    IF resp.err # NoError
    THEN EmailReturn("L105", "", resp.err)
    ELSE EmailReturn("L115", JSONString(resp.json.email).val, NoError)

emailOfProfile(resp) ==
    IF resp.err # NoError
    THEN EmailReturn("L105", "", resp.err)
    ELSE LET email == JSONString(resp.json.email)
         IN  IF email.err # NoError
             THEN EmailReturn("L110", "", email.err)
             ELSE EmailReturn("L115", email.val, NoError)

\* a GetEmailAddress that also writes the email into the session
GetEmailAddressProfileSetsEmail(s, resp) ==
    /\ pc[s] = "email:profile"
    /\ Return(s, emailOfProfile(resp))
    /\ inv' = [inv EXCEPT ![s].profile = resp]
    /\ sess' = [sess EXCEPT ![s].Email = emailOfProfile(resp).email]
    /\ UNCHANGED <<constructed, pdata, args, provider, obs, hist>>

GetEmailAddressProfile(s, resp) ==
    /\ pc[s] = "email:profile"
    /\ Return(s, emailOfProfile(resp))
    /\ inv' = [inv EXCEPT ![s].profile = resp]
    /\ UNCHANGED <<constructed, pdata, args, provider, obs, sess, hist>>

(***************************************************************************)
(* ValidateSession: validateToken answers false without a call when there  *)
(* is no token, and otherwise whether the validate call succeeded.         *)
(***************************************************************************)
ValidateReturn(at, valid) ==
    [op |-> "ValidateSession", at |-> at, err |-> NoError, email |-> "", valid |-> valid]

\* a ValidateSession that returns the opposite of what validateToken says
validateSessionResultInverted(tokenValid) == ~tokenValid

\* return validateToken(ctx, p, s.AccessToken, makeOIDCHeader(s.AccessToken))
validateSessionResult(tokenValid) == tokenValid

ValidateSessionStart(s) ==
    /\ CanStart(s)
    /\ IF sess[s].AccessToken = ""
       THEN /\ Return(s, ValidateReturn("L120", validateSessionResult(FALSE)))
            /\ hist' = [hist EXCEPT ![s] = Started(s)]
            /\ inv' = [inv EXCEPT ![s] = NoLocals]
       ELSE /\ Request(s, Started(s), "validate", URLString(pdata.ValidateURL), "validate:call")
            /\ UNCHANGED ret
    /\ UNCHANGED <<constructed, pdata, args, provider, obs, sess>>

ValidateSessionAnswer(s, ok) ==
    /\ pc[s] = "validate:call"
    /\ Return(s, ValidateReturn("L120", validateSessionResult(ok)))
    /\ inv' = [inv EXCEPT ![s].answer = IF ok THEN "ok" ELSE "failed"]
    /\ UNCHANGED <<constructed, pdata, args, provider, obs, sess, hist>>

(***************************************************************************)
(* EnrichSession                                                           *)
(***************************************************************************)
EnrichReturn(at, err) ==
    [op |-> "EnrichSession", at |-> at, err |-> err, email |-> "", valid |-> FALSE]

\* an EnrichSession that does not look at the token
enrichTokenMissingNever(s) == FALSE

enrichTokenMissing(s) == sess[s].AccessToken = ""

EnrichSessionStart(s) ==
    /\ CanStart(s)
    /\ IF enrichTokenMissing(s)
       THEN /\ Return(s, EnrichReturn("L126", ErrMissingToken))
            /\ hist' = [hist EXCEPT ![s] = Started(s)]
            /\ inv' = [inv EXCEPT ![s] = NoLocals]
       ELSE /\ Request(s, Started(s), "profile", URLString(pdata.ProfileURL), "enrich:profile")
            /\ UNCHANGED ret
    /\ UNCHANGED <<constructed, pdata, args, provider, obs, sess>>

\* an EnrichSession that asks for the profile a second time when the fetch failed
EnrichSessionProfileRetry(s, resp) ==
    /\ pc[s] = "enrich:profile"
    /\ LET user == JSONString(resp.json.user_id)
       IN  IF resp.err # NoError /\ hist[s].calls.profile < 2
           THEN /\ hist' = [hist EXCEPT ![s].calls.profile = @ + 1]
                /\ UNCHANGED <<inv, pc, ret>>
           ELSE IF resp.err # NoError \/ user.err # NoError
           THEN /\ Return(s, EnrichReturn("L137", IF resp.err # NoError THEN resp.err ELSE user.err))
                /\ inv' = [inv EXCEPT ![s].profile = resp]
                /\ UNCHANGED hist
           ELSE /\ hist' = [hist EXCEPT ![s].calls.permissions = @ + 1]
                /\ inv' = [inv EXCEPT ![s].profile = resp,
                                      ![s].user = user.val,
                                      ![s].url = PermissionsEndpoint(provider)]
                /\ pc' = [pc EXCEPT ![s] = "enrich:permissions"]
                /\ UNCHANGED ret
    /\ UNCHANGED <<constructed, pdata, args, provider, obs, sess>>

\* an EnrichSession that waits for ever once the profile call was cancelled
EnrichSessionProfileHang(s, resp) ==
    /\ pc[s] = "enrich:profile"
    /\ LET user == JSONString(resp.json.user_id)
       IN  IF resp.err = ErrCancelled
           THEN /\ pc' = [pc EXCEPT ![s] = "enrich:blocked"]
                /\ inv' = [inv EXCEPT ![s].profile = resp]
                /\ UNCHANGED <<hist, ret>>
           ELSE IF resp.err # NoError \/ user.err # NoError
           THEN /\ Return(s, EnrichReturn(IF resp.err # NoError THEN "L137" ELSE "L142",
                                          IF resp.err # NoError THEN resp.err ELSE user.err))
                /\ inv' = [inv EXCEPT ![s].profile = resp]
                /\ UNCHANGED hist
           ELSE /\ hist' = [hist EXCEPT ![s].calls.permissions = @ + 1]
                /\ inv' = [inv EXCEPT ![s].profile = resp,
                                      ![s].user = user.val,
                                      ![s].url = PermissionsEndpoint(provider)]
                /\ pc' = [pc EXCEPT ![s] = "enrich:permissions"]
                /\ UNCHANGED ret
    /\ UNCHANGED <<constructed, pdata, args, provider, obs, sess>>

\* an EnrichSession that goes on to the permissions without a user_id
EnrichSessionProfileNoUserCheck(s, resp) ==
    /\ pc[s] = "enrich:profile"
    /\ LET user == JSONString(resp.json.user_id)
       IN  IF resp.err # NoError
           THEN /\ Return(s, EnrichReturn("L137", resp.err))
                /\ inv' = [inv EXCEPT ![s].profile = resp]
                /\ UNCHANGED hist
           ELSE /\ hist' = [hist EXCEPT ![s].calls.permissions = @ + 1]
                /\ inv' = [inv EXCEPT ![s].profile = resp,
                                      ![s].user = user.val,
                                      ![s].url = PermissionsEndpoint(provider)]
                /\ pc' = [pc EXCEPT ![s] = "enrich:permissions"]
                /\ UNCHANGED ret
    /\ UNCHANGED <<constructed, pdata, args, provider, obs, sess>>

\* the profile answer arrives: user_id is read and the permissions are asked for
EnrichSessionProfile(s, resp) ==
    /\ pc[s] = "enrich:profile"
    /\ LET user == JSONString(resp.json.user_id)
       IN  IF resp.err # NoError
           THEN /\ Return(s, EnrichReturn("L137", resp.err))
                /\ inv' = [inv EXCEPT ![s].profile = resp]
                /\ UNCHANGED hist
           ELSE IF user.err # NoError
           THEN /\ Return(s, EnrichReturn("L142", user.err))
                /\ inv' = [inv EXCEPT ![s].profile = resp]
                /\ UNCHANGED hist
           ELSE /\ hist' = [hist EXCEPT ![s].calls.permissions = @ + 1]
                /\ inv' = [inv EXCEPT ![s].profile = resp,
                                      ![s].user = user.val,
                                      ![s].url = PermissionsEndpoint(provider)]
                /\ pc' = [pc EXCEPT ![s] = "enrich:permissions"]
                /\ UNCHANGED ret
    /\ UNCHANGED <<constructed, pdata, args, provider, obs, sess>>

\* an append that leaves out an account the groups already hold
appendGroupOnce(groups, account) ==
    IF \E i \in 1..Len(groups) : groups[i] = account THEN groups ELSE Append(groups, account)

\* s.Groups = append(s.Groups, p.Account)
appendGroup(groups, account) == Append(groups, account)

\* an ending that writes the account into groups before it checks the permissions
enrichDecisionAppendFirst(s, resp) ==
    IF resp.err # NoError
    THEN [groups |-> sess[s].Groups, ok |-> 0, ret |-> EnrichReturn("L150", resp.err)]
    ELSE IF ~isUserAllowed(provider, resp.permissions)
    THEN [groups |-> appendGroup(sess[s].Groups, provider.Account), ok |-> 0,
          ret |-> EnrichReturn("L156", ErrDenied(inv[s].user, provider.Account))]
    ELSE [groups |-> appendGroup(sess[s].Groups, provider.Account), ok |-> 1,
          ret |-> EnrichReturn("L163", NoError)]

\* an ending that lets everybody in whose permissions could be fetched
enrichDecisionNoCheck(s, resp) ==
    IF resp.err # NoError
    THEN [groups |-> sess[s].Groups, ok |-> 0, ret |-> EnrichReturn("L150", resp.err)]
    ELSE [groups |-> appendGroup(sess[s].Groups, provider.Account), ok |-> 1,
          ret |-> EnrichReturn("L163", NoError)]

\* an ending that wraps the error of the permissions fetch in a message of its own
enrichDecisionWrapped(s, resp) ==
    IF resp.err # NoError
    THEN [groups |-> sess[s].Groups, ok |-> 0,
          ret |-> EnrichReturn("L150", <<"get permissions: ">> \o resp.err)]
    ELSE IF ~isUserAllowed(provider, resp.permissions)
    THEN [groups |-> sess[s].Groups, ok |-> 0,
          ret |-> EnrichReturn("L156", ErrDenied(inv[s].user, provider.Account))]
    ELSE [groups |-> appendGroup(sess[s].Groups, provider.Account), ok |-> 1,
          ret |-> EnrichReturn("L163", NoError)]

\* an ending that reads the user from one slot shared by all running calls
enrichDecisionSharedUser(s, resp) ==
    LET others == {t \in DOMAIN inv : t # s /\ inv[t].user # ""}
        user == IF others # {} THEN inv[CHOOSE t \in others : TRUE].user ELSE inv[s].user
    IN  IF resp.err # NoError
        THEN [groups |-> sess[s].Groups, ok |-> 0, ret |-> EnrichReturn("L150", resp.err)]
        ELSE IF ~isUserAllowed(provider, resp.permissions)
        THEN [groups |-> sess[s].Groups, ok |-> 0,
              ret |-> EnrichReturn("L156", ErrDenied(user, provider.Account))]
        ELSE [groups |-> appendGroup(sess[s].Groups, provider.Account), ok |-> 1,
              ret |-> EnrichReturn("L163", NoError)]

\* the end of EnrichSession, from the answer of the permissions endpoint on:
\* the groups it leaves, whether it succeeded, and what it returns
enrichDecision(s, resp) ==
    IF resp.err # NoError
    THEN [groups |-> sess[s].Groups, ok |-> 0, ret |-> EnrichReturn("L150", resp.err)]
    ELSE IF ~isUserAllowed(provider, resp.permissions)
    THEN [groups |-> sess[s].Groups, ok |-> 0,
          ret |-> EnrichReturn("L156", ErrDenied(inv[s].user, provider.Account))]
    ELSE [groups |-> appendGroup(sess[s].Groups, provider.Account), ok |-> 1,
          ret |-> EnrichReturn("L163", NoError)]

EnrichSessionPermissions(s, resp) ==
    /\ pc[s] = "enrich:permissions"
    /\ LET d == enrichDecision(s, resp)
       IN  /\ sess' = [sess EXCEPT ![s].Groups = d.groups]
           /\ hist' = [hist EXCEPT ![s].ok = @ + d.ok]
           /\ Return(s, d.ret)
    /\ inv' = [inv EXCEPT ![s].permissions = resp.permissions,
                          ![s].permissionsErr = resp.err]
    /\ UNCHANGED <<constructed, pdata, args, provider, obs>>

(***************************************************************************)
(* The provider in use: constructed from a zero ProviderData and some      *)
(* options, then called on its sessions.                                   *)
(***************************************************************************)
Sessions == {"s1"}

MainOpts ==
    [Permissions : {<<>>, <<"compute.read">>, <<"billing.write", "compute.read">>},
     Account : Accounts,
     PermissionsURL : {DefaultPermissionsURL}]

SessionsInit(SS, tokens, groups) ==
    /\ sess \in [SS -> [AccessToken : tokens, Email : {""}, Groups : groups]]
    /\ pc = [s \in SS |-> "idle"]
    /\ inv = [s \in SS |-> NoLocals]
    /\ ret = [s \in SS |-> NoReturn]
    /\ hist = [s \in SS |->
                 [started |-> 0, ok |-> 0, calls |-> NoCalls,
                  groups0 |-> sess[s].Groups, init |-> sess[s].Groups]]

Init ==
    /\ constructed = TRUE
    /\ args \in [p : {ZeroPData}, opts : MainOpts]
    /\ pdata = NewCivoProviderData(args.p)
    /\ provider = NewCivoProviderFields(args.opts)
    /\ obs = NoObs
    /\ SessionsInit(Sessions, Tokens, InitialGroups)

SessionNext(s) ==
    \/ GetEmailAddressStart(s)
    \/ \E resp \in ProfileResponses : GetEmailAddressProfile(s, resp)
    \/ ValidateSessionStart(s)
    \/ \E ok \in BOOLEAN : ValidateSessionAnswer(s, ok)
    \/ EnrichSessionStart(s)
    \/ \E resp \in ProfileResponses : EnrichSessionProfile(s, resp)
    \/ \E resp \in PermissionsResponses : EnrichSessionPermissions(s, resp)

Next == \E s \in Sessions : SessionNext(s)

Spec == Init /\ [][Next]_vars

(***************************************************************************)
(* The constructor and the permission check on their own: NewCivoProvider  *)
(* on every ProviderData and permission list of the inputs, then           *)
(* isUserAllowed on every list the remote may return.                      *)
(***************************************************************************)
NewOpts ==
    [Permissions : RequiredLists,
     Account : Accounts,
     PermissionsURL : {DefaultPermissionsURL}]

InitNew ==
    /\ constructed = FALSE
    /\ args \in [p : PDataInputs, opts : NewOpts]
    /\ pdata = args.p
    /\ provider = ZeroProvider
    /\ obs = NoObs
    /\ SessionsInit(Sessions, {"token"}, {<<>>})

NewCivoProvider ==
    /\ ~constructed
    /\ pdata' = NewCivoProviderData(pdata)
    /\ provider' = NewCivoProviderFields(args.opts)
    /\ constructed' = TRUE
    /\ UNCHANGED <<args, obs, sess, pc, inv, ret, hist>>

IsUserAllowedCall(userPermissions) ==
    /\ constructed
    /\ obs.op = "none"
    /\ obs' = [obs EXCEPT !.op = "isUserAllowed",
                          !.perms = userPermissions,
                          !.allowed = isUserAllowed(provider, userPermissions)]
    /\ UNCHANGED <<constructed, pdata, args, provider, sess, pc, inv, ret, hist>>

NextNew ==
    \/ NewCivoProvider
    \/ \E userPermissions \in PermissionLists : IsUserAllowedCall(userPermissions)

SpecNew == InitNew /\ [][NextNew]_vars

(***************************************************************************)
(* The permissions request URL on its own: getUserPermissionsInAccount     *)
(* builds it for every permissions URL and account of the inputs.          *)
(***************************************************************************)
URLOpts ==
    [Permissions : {<<"compute.read">>},
     Account : SeqsUpTo(AccountAtoms, MaxAccountLen),
     PermissionsURL : SeqsUpTo(URLAtoms, MaxLen)]

InitURL ==
    /\ constructed = TRUE
    /\ args \in [p : {ZeroPData}, opts : URLOpts]
    /\ pdata = NewCivoProviderData(args.p)
    /\ provider = NewCivoProviderFields(args.opts)
    /\ obs = NoObs
    /\ SessionsInit(Sessions, {"token"}, {<<>>})

GetUserPermissionsEndpoint ==
    /\ constructed
    /\ obs.op = "none"
    /\ obs' = [obs EXCEPT !.op = "endpoint", !.endpoint = PermissionsEndpoint(provider)]
    /\ UNCHANGED <<constructed, pdata, args, provider, sess, pc, inv, ret, hist>>

NextURL == GetUserPermissionsEndpoint

SpecURL == InitURL /\ [][NextURL]_vars

(***************************************************************************)
(* Properties                                                              *)
(***************************************************************************)
Range(s) == {s[i] : i \in 1..Len(s)}

\* C1: isUserAllowed returns true exactly when at least one returned
\* permission's code is among the permissions the provider was configured
\* with; an empty list and a disjoint list give false, one match is enough.
C1_AllowedIffIntersect ==
    obs.op = "isUserAllowed" =>
        (obs.allowed <=>
            {q.Code : q \in Range(obs.perms)} \cap Range(args.opts.Permissions) # {})

\* C1 witness: two permissions came back, only the second is a required one,
\* and the check said yes
C1_Witness ==
    /\ obs.op = "isUserAllowed"
    /\ Len(obs.perms) = 2
    /\ obs.perms[1].Code \notin Range(args.opts.Permissions)
    /\ obs.perms[2].Code \in Range(args.opts.Permissions)
    /\ obs.allowed

\* C2: with an empty access token GetEmailAddress and EnrichSession return
\* the missing-token error, and the session never waits for, nor has issued,
\* a profile or permissions call.
C2_EmptyTokenNoCall ==
    \A s \in Sessions :
        sess[s].AccessToken = "" =>
            /\ pc[s] = "idle"
            /\ hist[s].calls.profile = 0
            /\ hist[s].calls.permissions = 0
            /\ ret[s].op \in {"GetEmailAddress", "EnrichSession"} =>
                   ret[s].err = ErrMissingToken

\* C2 witness: both operations have returned on a session without a token
C2_Witness ==
    \E s \in Sessions :
        /\ sess[s].AccessToken = ""
        /\ hist[s].started = 2
        /\ ret[s].op = "EnrichSession"
        /\ ret[s].err = ErrMissingToken

\* C3: while EnrichSession runs, and when it has returned an error, the
\* session's groups are what they were when it was called.
C3_ErrorKeepsGroups ==
    \A s \in Sessions :
        (\/ pc[s] \in {"enrich:profile", "enrich:permissions"}
         \/ pc[s] = "idle" /\ ret[s].op = "EnrichSession" /\ ret[s].err # NoError)
        => sess[s].Groups = hist[s].groups0

\* C3 witness: a denial on a session that already had a group, after an
\* earlier call had added one
C3_Witness ==
    \E s \in Sessions :
        /\ pc[s] = "idle"
        /\ ret[s].at = "L156"
        /\ Len(sess[s].Groups) = 2

\* C4: a successful EnrichSession leaves groups as they were with the
\* configured account appended, and at every moment groups are the initial
\* groups followed by one account per successful call.
C4_AppendsOnePerSuccess ==
    \A s \in Sessions :
        /\ pc[s] = "idle" /\ ret[s].op = "EnrichSession" /\ ret[s].err = NoError
           => sess[s].Groups = hist[s].groups0 \o <<args.opts.Account>>
        /\ Len(sess[s].Groups) = Len(hist[s].init) + hist[s].ok
        /\ sess[s].Groups = hist[s].init \o [i \in 1..hist[s].ok |-> args.opts.Account]

\* C4 witness: two successful calls on a session that started with a group
C4_Witness ==
    \E s \in Sessions :
        /\ hist[s].ok = 2
        /\ hist[s].init # <<>>
        /\ Len(sess[s].Groups) = 3

\* C5: when EnrichSession got as far as the permission check (token there,
\* profile and permissions fetched), it succeeds and appends the account if a
\* returned code is a required one, and returns the access-denied error if not.
C5_DecisionFollowsPermissions ==
    \A s \in Sessions :
        pc[s] = "idle" /\ ret[s].op = "EnrichSession" /\ ret[s].at \in {"L156", "L163"} =>
            IF {q.Code : q \in Range(inv[s].permissions)} \cap Range(args.opts.Permissions) # {}
            THEN /\ ret[s].err = NoError
                 /\ sess[s].Groups = hist[s].groups0 \o <<args.opts.Account>>
            ELSE /\ ret[s].err = ErrDenied(inv[s].user, args.opts.Account)
                 /\ sess[s].Groups = hist[s].groups0

\* C5 witness: a denial although the remote returned permissions, none required
C5_Witness ==
    \E s \in Sessions :
        /\ pc[s] = "idle"
        /\ ret[s].at = "L156"
        /\ Len(inv[s].permissions) = 2
        /\ args.opts.Permissions # <<>>

\* C6: the request URL is the permissions URL, then "&" if that URL has a "?"
\* in it (also as its last character) and "?" if not, then account_id=<account>.
C6_Separator ==
    obs.op = "endpoint" =>
        LET url == args.opts.PermissionsURL
            n == Len(url)
        IN  /\ Len(obs.endpoint) = n + 3 + Len(args.opts.Account)
            /\ SubSeq(obs.endpoint, 1, n) = url
            /\ obs.endpoint[n + 1] = (IF "?" \in Range(url) THEN "&" ELSE "?")
            /\ SubSeq(obs.endpoint, n + 2, n + 3) = <<"account_id", "=">>
            /\ SubSeq(obs.endpoint, n + 4, Len(obs.endpoint)) = args.opts.Account

\* C6 witness: a permissions URL that ends in "?" got "&"
C6_Witness ==
    /\ obs.op = "endpoint"
    /\ args.opts.PermissionsURL = <<"u", "?">>
    /\ obs.endpoint[3] = "&"

\* C7 (as claimed): the query of the request URL has exactly one account_id
\* parameter, and its value is the configured account.
C7_QueryHasAccount ==
    obs.op = "endpoint" =>
        QueryValues(obs.endpoint, <<"account_id">>)
            = << <<(<<"account_id">>), args.opts.Account>> >>

\* C8 (as claimed): constructed from an empty ProviderData, the provider has
\* the name civo, the login, redeem, profile and validate URLs
\* https://auth.civo.com/{authorize,token,userinfo,userinfo} and the scope read.
C8_Defaults ==
    constructed /\ args.p = ZeroPData =>
        /\ pdata.ProviderName = "civo"
        /\ URLString(pdata.LoginURL) = <<"https", ":", "/", "/", "auth.civo.com", "/", "authorize">>
        /\ URLString(pdata.RedeemURL) = <<"https", ":", "/", "/", "auth.civo.com", "/", "token">>
        /\ URLString(pdata.ProfileURL) = <<"https", ":", "/", "/", "auth.civo.com", "/", "userinfo">>
        /\ URLString(pdata.ValidateURL) = <<"https", ":", "/", "/", "auth.civo.com", "/", "userinfo">>
        /\ pdata.Scope = "read"

IsConfigured(u) == ~u.Nil /\ u # EmptyURL

\* C9: NewCivoProvider keeps every URL and the scope that were configured on
\* the ProviderData it was given, and always sets the name to civo.
C9_ConfiguredKept ==
    constructed =>
        /\ pdata.ProviderName = "civo"
        /\ IsConfigured(args.p.LoginURL) => pdata.LoginURL = args.p.LoginURL
        /\ IsConfigured(args.p.RedeemURL) => pdata.RedeemURL = args.p.RedeemURL
        /\ IsConfigured(args.p.ProfileURL) => pdata.ProfileURL = args.p.ProfileURL
        /\ IsConfigured(args.p.ValidateURL) => pdata.ValidateURL = args.p.ValidateURL
        /\ args.p.Scope # "" => pdata.Scope = args.p.Scope

\* C9 witness: everything was configured, under another name
C9_Witness ==
    /\ constructed
    /\ args.p.ProviderName = "other"
    /\ pdata.LoginURL = CustomLoginURL
    /\ pdata.RedeemURL = CustomRedeemURL
    /\ pdata.ProfileURL = CustomProfileURL
    /\ pdata.ValidateURL = CustomValidateURL
    /\ pdata.Scope = "profile"

\* C10: with a token, GetEmailAddress returns the email of the profile answer
\* and no error when the fetch succeeded and email is a string, and the empty
\* string with an error in every other case.
C10_EmailOrError ==
    \A s \in Sessions :
        pc[s] = "idle" /\ ret[s].op = "GetEmailAddress" /\ sess[s].AccessToken # "" =>
            LET r == inv[s].profile
            IN  IF r.err = NoError /\ r.json.email.type = "string"
                THEN ret[s].email = r.json.email.str /\ ret[s].err = NoError
                ELSE ret[s].email = "" /\ ret[s].err # NoError

\* C10 witness: the email came back
C10_Witness ==
    \E s \in Sessions :
        /\ pc[s] = "idle"
        /\ ret[s].op = "GetEmailAddress"
        /\ ret[s].email = "user@example.com"
        /\ ret[s].err = NoError

\* C11: a provider configured with an empty permission list lets nobody in:
\* every EnrichSession on it returns an error and no session's groups ever
\* change, whatever the profile and permissions endpoints answer.
C11_EmptyConfigDenies ==
    args.opts.Permissions = <<>> =>
        \A s \in Sessions :
            /\ hist[s].ok = 0
            /\ sess[s].Groups = hist[s].init
            /\ pc[s] = "idle" /\ ret[s].op = "EnrichSession" => ret[s].err # NoError

\* C11 witness: the remote returned two permissions and the call was denied
C11_Witness ==
    \E s \in Sessions :
        /\ args.opts.Permissions = <<>>
        /\ pc[s] = "idle"
        /\ ret[s].at = "L156"
        /\ Len(inv[s].permissions) = 2
        /\ sess[s].Groups = hist[s].init

IsEnriching(s) ==
    \/ pc[s] \in {"enrich:profile", "enrich:permissions"}
    \/ pc[s] = "idle" /\ ret[s].op = "EnrichSession"

\* C12: one EnrichSession issues at most one profile call and then at most one
\* permissions call; the permissions call is issued only once the profile
\* call has succeeded (and given a user_id), and while the profile call is
\* awaited no permissions call has been issued.
C12_AtMostTwoCallsInOrder ==
    \A s \in Sessions :
        IsEnriching(s) =>
            /\ hist[s].calls.profile <= 1
            /\ hist[s].calls.permissions <= 1
            /\ hist[s].calls.validate = 0
            /\ pc[s] = "enrich:profile" =>
                   hist[s].calls.profile = 1 /\ hist[s].calls.permissions = 0
            /\ hist[s].calls.permissions = 1 =>
                   /\ hist[s].calls.profile = 1
                   /\ inv[s].profile.err = NoError
                   /\ inv[s].profile.json.user_id.type = "string"
            /\ inv[s].profile.err # NoError => hist[s].calls.permissions = 0

\* C12 witness: both calls were made and the call returned
C12_Witness ==
    \E s \in Sessions :
        /\ pc[s] = "idle"
        /\ ret[s].op = "EnrichSession"
        /\ hist[s].calls.profile = 1
        /\ hist[s].calls.permissions = 1

(***************************************************************************)
(* The provider in use when every outbound call is answered: the request   *)
(* is bound to the caller's context, so a call that gets no answer ends    *)
(* with the context's cancellation or timeout.                             *)
(***************************************************************************)
CallsReturn ==
    \A s \in Sessions :
        /\ WF_vars(\E resp \in ProfileResponses : EnrichSessionProfile(s, resp))
        /\ WF_vars(\E resp \in PermissionsResponses : EnrichSessionPermissions(s, resp))

SpecLive == Init /\ [][Next]_vars /\ CallsReturn

\* C13: if every outbound call is answered, an EnrichSession that waits for a
\* call eventually returns; and a call that ends cancelled makes EnrichSession
\* return that error, with no call issued after it.
C13_Terminates ==
    /\ \A s \in Sessions :
           pc[s] \in {"enrich:profile", "enrich:permissions"}
               ~> (pc[s] = "idle" /\ ret[s].op = "EnrichSession")
    /\ [](\A s \in Sessions :
             pc[s] = "idle" /\ ret[s].op = "EnrichSession" =>
                 /\ inv[s].profile.err = ErrCancelled =>
                        /\ ret[s].err = ErrCancelled
                        /\ hist[s].calls.profile = 1
                        /\ hist[s].calls.permissions = 0
                 /\ inv[s].permissionsErr = ErrCancelled =>
                        /\ ret[s].err = ErrCancelled
                        /\ hist[s].calls.profile = 1
                        /\ hist[s].calls.permissions = 1)

\* C13 witness: the permissions call was cancelled and EnrichSession returned
C13_Witness ==
    \E s \in Sessions :
        /\ pc[s] = "idle"
        /\ ret[s].op = "EnrichSession"
        /\ inv[s].permissionsErr = ErrCancelled
        /\ ret[s].err = ErrCancelled

\* C15: ValidateSession returns no error; it says true exactly when the
\* validate call was made and succeeded, false when the call failed or the
\* token is empty; it leaves the session and the count of successful
\* enrichments as they were, and whatever it says, EnrichSession decides
\* by the permissions alone.
C15_ValidateIsBoolean ==
    \A s \in Sessions :
        /\ pc[s] = "idle" /\ ret[s].op = "ValidateSession" =>
               /\ ret[s].err = NoError
               /\ ret[s].valid <=> (hist[s].calls.validate = 1 /\ inv[s].answer = "ok")
               /\ sess[s].AccessToken = "" => ~ret[s].valid /\ hist[s].calls.validate = 0
               /\ hist[s].calls.profile = 0 /\ hist[s].calls.permissions = 0
               /\ sess[s].Groups = hist[s].groups0
        /\ pc[s] = "validate:call" => sess[s].Groups = hist[s].groups0
        /\ sess[s].Groups = hist[s].init \o [i \in 1..hist[s].ok |-> args.opts.Account]

\* C15 witness: EnrichSession had let the session in, and the validation that
\* followed failed without touching the groups
C15_Witness ==
    \E s \in Sessions :
        /\ pc[s] = "idle"
        /\ ret[s].op = "ValidateSession"
        /\ ~ret[s].valid
        /\ inv[s].answer = "failed"
        /\ hist[s].ok = 1
        /\ Len(sess[s].Groups) = Len(hist[s].init) + 1

\* C17: when the profile fetch or the permissions fetch fails, GetEmailAddress
\* and EnrichSession return exactly the error of the fetch, groups stay as
\* they were, and the failed fetch is the last call of the operation.
C17_FetchErrorUnchanged ==
    \A s \in Sessions :
        pc[s] = "idle" /\ ret[s].op \in {"GetEmailAddress", "EnrichSession"} =>
            /\ inv[s].profile.err # NoError =>
                   /\ ret[s].err = inv[s].profile.err
                   /\ ret[s].email = ""
                   /\ hist[s].calls.profile = 1
                   /\ hist[s].calls.permissions = 0
                   /\ sess[s].Groups = hist[s].groups0
            /\ inv[s].permissionsErr # NoError =>
                   /\ ret[s].err = inv[s].permissionsErr
                   /\ hist[s].calls.profile = 1
                   /\ hist[s].calls.permissions = 1
                   /\ sess[s].Groups = hist[s].groups0

\* C17 witness: the permissions fetch failed with a malformed response
C17_Witness ==
    \E s \in Sessions :
        /\ pc[s] = "idle"
        /\ ret[s].op = "EnrichSession"
        /\ inv[s].permissionsErr = ErrMalformed
        /\ ret[s].err = ErrMalformed

\* C19: when the profile answer has no string user_id, EnrichSession returns
\* the error of reading it, asks for no permissions and leaves groups alone.
C19_NoUserIdNoPermissions ==
    \A s \in Sessions :
        /\ pc[s] = "idle" /\ ret[s].op = "EnrichSession"
           /\ inv[s].profile.err = NoError /\ hist[s].calls.profile = 1
           /\ inv[s].profile.json.user_id.type # "string"
           => /\ ret[s].err = ErrNotString
              /\ ret[s].at = "L142"
              /\ hist[s].calls.permissions = 0
              /\ sess[s].Groups = hist[s].groups0
        /\ pc[s] = "enrich:permissions" => inv[s].profile.json.user_id.type = "string"

\* C19 witness: the profile had an email but a user_id that is no string, on a
\* provider that any returned permission of the inputs could have satisfied
C19_Witness ==
    \E s \in Sessions :
        /\ pc[s] = "idle"
        /\ ret[s].at = "L142"
        /\ inv[s].profile.json.user_id = NotAString
        /\ inv[s].profile.json.email.type = "string"
        /\ Len(args.opts.Permissions) = 2

Sessions2 == {"s1", "s2"}

ConcurrentTokens == {"token", "token2"}

\* the answers of the remote that matter to a decision: a failure, a profile
\* without user_id, a profile of either user; a failure, no permission, one
\* permission of either code
ConcurrentProfileResponses ==
    {r \in ProfileResponses :
        /\ r.err \in {NoError, ErrTransport}
        /\ r.err = NoError => r.json.email.type = "string" /\ r.json.user_id # NotAString}

ConcurrentPermissionsResponses ==
    {r \in PermissionsResponses : r.err \in {NoError, ErrCancelled} /\ Len(r.permissions) <= 1}

InitConcurrent ==
    /\ constructed = TRUE
    /\ args \in [p : {ZeroPData}, opts : MainOpts]
    /\ pdata = NewCivoProviderData(args.p)
    /\ provider = NewCivoProviderFields(args.opts)
    /\ obs = NoObs
    /\ SessionsInit(Sessions2, ConcurrentTokens, {<<>>})
    /\ sess["s1"].AccessToken = "token"
    /\ sess["s2"].AccessToken = "token2"

EnrichNext(s) ==
    \/ EnrichSessionStart(s)
    \/ \E resp \in ConcurrentProfileResponses : EnrichSessionProfile(s, resp)
    \/ \E resp \in ConcurrentPermissionsResponses : EnrichSessionPermissions(s, resp)

NextConcurrent == \E s \in Sessions2 : EnrichNext(s)

SpecConcurrent == InitConcurrent /\ [][NextConcurrent]_vars

\* what one EnrichSession returns when it runs alone, from its own token, the
\* answers it got and the configuration
EnrichAlone(token, profile, permissionsErr, permissions, required, account) ==
    IF token = "" THEN ErrMissingToken
    ELSE IF profile.err # NoError THEN profile.err
    ELSE IF profile.json.user_id.type # "string" THEN ErrNotString
    ELSE IF permissionsErr # NoError THEN permissionsErr
    ELSE IF {q.Code : q \in Range(permissions)} \cap Range(required) = {}
    THEN <<"user ", profile.json.user_id.str, " in account ">> \o account
             \o <<" has no sufficient permissions">>
    ELSE NoError

\* C14: no step writes the provider (account, permissions URL, permission
\* set, endpoints); a step of one session leaves every other session's state
\* alone; and in every interleaving a finished EnrichSession has returned
\* what it returns alone, with the groups it leaves alone.
C14_NoSharedMutableState ==
    /\ [][/\ provider' = provider /\ pdata' = pdata /\ args' = args
          /\ \E s \in Sessions2 : \A t \in Sessions2 \ {s} :
                 /\ sess'[t] = sess[t] /\ pc'[t] = pc[t] /\ inv'[t] = inv[t]
                 /\ ret'[t] = ret[t] /\ hist'[t] = hist[t]]_vars
    /\ [](\A s \in Sessions2 :
             /\ pc[s] = "idle" /\ ret[s].op = "EnrichSession" =>
                    LET err == EnrichAlone(sess[s].AccessToken, inv[s].profile,
                                           inv[s].permissionsErr, inv[s].permissions,
                                           args.opts.Permissions, args.opts.Account)
                    IN  /\ ret[s].err = err
                        /\ sess[s].Groups =
                               IF err = NoError
                               THEN hist[s].groups0 \o <<args.opts.Account>>
                               ELSE hist[s].groups0
             /\ sess[s].Groups = hist[s].init \o [i \in 1..hist[s].ok |-> args.opts.Account])

\* C14 witness: while s2 still waits for its permissions, s1 has been denied
\* under another user; then both have finished, one let in and one denied
C14_Witness ==
    /\ pc["s1"] = "idle" /\ ret["s1"].at = "L156"
    /\ pc["s2"] = "enrich:permissions"
    /\ inv["s1"].user # inv["s2"].user
    /\ hist["s2"].ok = 1

\* C18: the access-denied error is made of the user_id and the account alone:
\* two denied calls for the same user return the same error whatever their
\* tokens and the permissions the remote returned, and the message holds
\* neither the token, nor a required permission, nor a returned one.
C18_DeniedNamesUserAndAccountOnly ==
    \A s \in Sessions2 :
        pc[s] = "idle" /\ ret[s].at = "L156" =>
            /\ \A t \in Sessions2 :
                   pc[t] = "idle" /\ ret[t].at = "L156" /\ inv[t].user = inv[s].user
                       => ret[t].err = ret[s].err
            /\ ret[s].err = <<"user ", inv[s].user, " in account ">> \o args.opts.Account
                                \o <<" has no sufficient permissions">>
            /\ Range(ret[s].err) \cap
                   ({sess[s].AccessToken} \cup Range(args.opts.Permissions)
                        \cup {q.Code : q \in Range(inv[s].permissions)}) = {}

\* C18 witness: two calls denied for the same user, with different tokens and
\* different permissions returned, on a provider that requires something
C18_Witness ==
    /\ pc["s1"] = "idle" /\ ret["s1"].at = "L156"
    /\ pc["s2"] = "idle" /\ ret["s2"].at = "L156"
    /\ inv["s1"].user = inv["s2"].user
    /\ sess["s1"].AccessToken # sess["s2"].AccessToken
    /\ inv["s1"].permissions # inv["s2"].permissions
    /\ args.opts.Permissions # <<>>
    /\ ret["s1"].err = ret["s2"].err

====
